---- MODULE Spec2Model ----
(***************************************************************************)
(* Model of src/server.py: the /api/process-files handler (process_files), *)
(* the extractor (extract_text_from_file), allowed_file and                *)
(* call_openai_api.                                                        *)
(*                                                                         *)
(* Texts are run-length encoded: a text is a sequence of runs              *)
(* [k, n, src], n >= 1 characters of kind k coming from upload number src  *)
(* (0: no upload).  Kinds: "ws" whitespace, "ch" non-whitespace content,   *)
(* "bad" undecodable bytes (raw uploads only), and one kind per literal    *)
(* the code emits ("hdr", "trunc", "note", "cut", "tmpl").  Lengths are    *)
(* the real ones, so slicing at 8000 / 50000 / 5 MB is computed exactly.   *)
(*                                                                         *)
(* File names are sequences of one-character strings.  Model replies are   *)
(* sequences of lexical tokens (whitespace, blank line, fence markers,     *)
(* prose, one JSON document).                                              *)
(***************************************************************************)
EXTENDS Integers, Sequences, FiniteSets, TLC

VARIABLES
    request,          \* the upload: [has_files, files, pypdf2]
    pc,               \* position in process_files
    i,                \* index of the next file the loop visits
    page,             \* extract_text_from_file: the next page of the pdf page loop
    pdf_text,         \* extract_text_from_file: local text of the pdf branch
    combined_text,    \* local combined_text
    processed_files,  \* local processed_files
    errors,           \* local errors
    explanation_text, \* local explanation_text after cleaning
    explanation_data, \* local explanation_data
    quiz_text,        \* local quiz_text after cleaning
    quiz_data,        \* local quiz_data
    response,         \* what the handler returned
    extracted,        \* history: indices extract_text_from_file was called on
    returned,         \* history: [idx, result] of each return of extract_text_from_file
    calls,            \* history: prompts handed to the model client, in order
    replies,          \* history: what call_openai_api returned, in order
    assembled         \* history: the corpus as it left the per-file loop

vars == <<request, pc, i, page, pdf_text, combined_text, processed_files, errors,
          explanation_text, explanation_data, quiz_text, quiz_data,
          response, extracted, returned, calls, replies, assembled>>

\* ------------------------------------------------------------ bounds

MaxFiles == 2

\* ------------------------------------------------- program constants

MAX_TXT_BYTES == 5242880
MAX_PAGES == 100
MAX_PDF_CHARS == 50000
MAX_CORPUS == 8000
TRUNC_MARK_LEN == 31
NOTE_FIXED_LEN == 46
CUT_MARK_LEN == 38
HEADER_FIXED_LEN == 21

\* -------------------------------------------------------------- text

Run(k, n, src) == IF n = 0 THEN <<>> ELSE <<[k |-> k, n |-> n, src |-> src]>>

RECURSIVE TLen(_)
TLen(t) == IF t = <<>> THEN 0 ELSE Head(t).n + TLen(Tail(t))

\* t[:m]
RECURSIVE Take(_, _)
Take(t, m) ==
    IF t = <<>> \/ m = 0 THEN <<>>
    ELSE IF Head(t).n <= m THEN <<Head(t)>> \o Take(Tail(t), m - Head(t).n)
    ELSE <<[Head(t) EXCEPT !.n = m]>>

\* not t.strip()
IsBlank(t) == \A j \in 1..Len(t) : t[j].k = "ws"

\* bytes.decode("utf-8", errors="ignore")
Decode(b) == SelectSeq(b, LAMBDA r : r.k # "bad")

\* t with every run marked as coming from upload src
RECURSIVE Tag(_, _)
Tag(t, src) ==
    IF t = <<>> THEN <<>> ELSE <<[Head(t) EXCEPT !.src = src]>> \o Tag(Tail(t), src)

Digits(n) == IF n < 10 THEN 1 ELSE IF n < 100 THEN 2 ELSE IF n < 1000 THEN 3 ELSE 4

\* -------------------------------------------------------- file names

Lower(c) ==
    CASE c = "P" -> "p" [] c = "D" -> "d" [] c = "F" -> "f"
      [] c = "T" -> "t" [] c = "X" -> "x" [] OTHER -> c

LowerSeq(s) == [j \in 1..Len(s) |-> Lower(s[j])]

HasDot(s) == \E j \in 1..Len(s) : s[j] = "."

LastDot(s) == CHOOSE j \in 1..Len(s) :
                  s[j] = "." /\ \A m \in (j+1)..Len(s) : s[m] # "."

\* filename.rsplit(".", 1)[1].lower()
Extension(s) == LowerSeq(SubSeq(s, LastDot(s) + 1, Len(s)))

ALLOWED_EXTENSIONS == { <<"p","d","f">>, <<"t","x","t">> }

allowed_file(filename) == HasDot(filename) /\ Extension(filename) \in ALLOWED_EXTENSIONS

\* bool(file): a FileStorage is truthy when it has a file name
Truthy(file) == file.filename # <<>>

RECURSIVE DropSpaces(_)
DropSpaces(s) == IF s # <<>> /\ Head(s) = " " THEN DropSpaces(Tail(s)) ELSE s

RECURSIVE Squash(_, _)
Squash(s, started) ==
    IF s = <<>> THEN <<>>
    ELSE IF Head(s) = " " THEN
        LET r == DropSpaces(Tail(s)) IN
        IF r = <<>> \/ ~started THEN Squash(r, started)
        ELSE <<"_">> \o Squash(r, TRUE)
    ELSE <<Head(s)>> \o Squash(Tail(s), TRUE)

RECURSIVE StripLeft(_)
StripLeft(s) == IF s # <<>> /\ Head(s) \in {".", "_"} THEN StripLeft(Tail(s)) ELSE s

RECURSIVE StripRight(_)
StripRight(s) ==
    IF s # <<>> /\ s[Len(s)] \in {".", "_"} THEN StripRight(SubSeq(s, 1, Len(s) - 1)) ELSE s

\* werkzeug's secure_filename on the alphabet used here: path separators
\* become spaces, whitespace runs become "_", leading and trailing "." and
\* "_" are stripped
secure_filename(s) ==
    StripRight(StripLeft(Squash([j \in 1..Len(s) |-> IF s[j] = "/" THEN " " ELSE s[j]], FALSE)))

\* ---------------------------------------------------------- extractor

NoText == [some |-> FALSE, text |-> <<>>]
SomeText(t) == [some |-> TRUE, text |-> t]

\* mutant: "if text is not None"
HasText_m(r) == r.some

\* if text: (None and "" are both falsy)
HasText(r) == r.some /\ r.text # <<>>

PageAt(file, p) == file.pat[((p - 1) % Len(file.pat)) + 1]

TRUNC_MARK == Run("ws", 1, 0) \o Run("trunc", TRUNC_MARK_LEN, 0)

pages_to_process(file) ==
    IF file.total_pages < MAX_PAGES THEN file.total_pages ELSE MAX_PAGES

\* one iteration of "for i in range(pages_to_process)" on page p, text being
\* what the earlier pages gave: the new text, and whether the loop breaks
page_step(file, p, text) ==
    LET pg == PageAt(file, p) IN
    IF pg.raises THEN [text |-> text, stop |-> FALSE]
    ELSE LET t1 == IF pg.n > 0
                   THEN text \o Run(pg.k, pg.n, 0) \o Run("ws", 1, 0)
                   ELSE text
         IN IF TLen(t1) > MAX_PDF_CHARS
            THEN [text |-> Take(t1, MAX_PDF_CHARS) \o TRUNC_MARK, stop |-> TRUE]
            ELSE [text |-> t1, stop |-> FALSE]

PageNote(total, done) ==
    Run("ws", 1, 0) \o Run("note", NOTE_FIXED_LEN + Digits(total) + Digits(done), 0)

\* "[PDF file uploaded but PyPDF2 library not installed for text extraction.]"
PDF_PLACEHOLDER == Run("note", 73, 0)

\* what the pdf branch returns once the page loop has left `looped`
pdf_result(file, looped) ==
    LET text == IF pages_to_process(file) < file.total_pages
                THEN looped \o PageNote(file.total_pages, pages_to_process(file))
                ELSE looped
    IN IF IsBlank(text) THEN NoText ELSE SomeText(text)

txt_text(file) ==
    LET content == IF TLen(file.bytes) > MAX_TXT_BYTES
                   THEN Take(file.bytes, MAX_TXT_BYTES) ELSE file.bytes
    IN SomeText(Decode(content))

\* whether extraction of this file enters the page loop of the pdf branch
reads_pages(file, pypdf2) ==
    Extension(file.filename) = <<"p","d","f">> /\ pypdf2 /\ file.pdf_ok

\* extract_text_from_file where it returns without a page loop: the txt
\* branch, a pdf without PyPDF2 or one PdfReader rejects, any other extension
extract_text_from_file(file, pypdf2) ==
    LET extension == Extension(file.filename) IN
    IF extension = <<"t","x","t">> THEN
        IF file.readable THEN txt_text(file) ELSE NoText
    ELSE IF extension = <<"p","d","f">> THEN
        IF ~pypdf2 THEN SomeText(PDF_PLACEHOLDER) ELSE NoText
    ELSE NoText

\* ------------------------------------------------------ model replies

\* A JSON document: [ty, d, items].  d is a dict's members as <<key, leaf>>
\* pairs, leaf one of "null", "emptystr", "emptylist" (empty values), "str",
\* "list" (some non-empty string or list) or a literal of the code
\* ("main_topic", "placeholders", "B"); items are a list's elements.
Dict(d) == [ty |-> "dict", d |-> d, items |-> <<>>]
List(items) == [ty |-> "list", d |-> {}, items |-> items]
Scalar == [ty |-> "scalar", d |-> {}, items |-> <<>>]
NoJson == [ty |-> "none", d |-> {}, items |-> <<>>]

Keys(v) == {p[1] : p \in v.d}

\* reply tokens
Tok(t) == [t |-> t, v |-> NoJson]
J(v) == [t |-> "json", v |-> v]
WS == Tok("ws")          \* spaces, single newlines
PARA == Tok("para")      \* "\n\n"
FJ == Tok("fj")          \* "```json"
F == Tok("f")            \* "```"
TXT == Tok("txt")        \* prose that is not JSON
DEEP == Tok("deep")      \* brackets nested deeper than the interpreter's recursion limit

Absent == [present |-> FALSE, toks |-> <<>>]
Present(toks) == [present |-> TRUE, toks |-> toks]

\* mutant: only the empty string counts as a failed call
Falsy_m(r) == r.present /\ r.toks = <<>>

\* if not explanation_text: (None and "" are both falsy)
Falsy(r) == ~r.present \/ r.toks = <<>>

IsSpace(tok) == tok.t \in {"ws", "para"}

RECURSIVE LStrip(_)
LStrip(s) == IF s # <<>> /\ IsSpace(Head(s)) THEN LStrip(Tail(s)) ELSE s

RECURSIVE RStrip(_)
RStrip(s) == IF s # <<>> /\ IsSpace(s[Len(s)]) THEN RStrip(SubSeq(s, 1, Len(s) - 1)) ELSE s

\* str.strip()
Strip(s) == RStrip(LStrip(s))

\* .replace('```json', '').replace('```', '')
DropFences(s) == SelectSeq(s, LAMBDA tok : tok.t \notin {"fj", "f"})

\* .replace('```', ''): a "```json" further on keeps its "json"
DropTicks(s) ==
    LET kept == SelectSeq(s, LAMBDA tok : tok.t # "f")
    IN [j \in 1..Len(kept) |-> IF kept[j].t = "fj" THEN TXT ELSE kept[j]]

\* the "Extract JSON from response" block
Clean(toks) ==
    LET s == Strip(toks) IN
    IF s # <<>> /\ Head(s).t = "fj" THEN Strip(DropFences(s))
    ELSE IF s # <<>> /\ Head(s).t = "f" THEN Strip(DropTicks(s))
    ELSE s

\* json.loads: a value, json.JSONDecodeError, or another exception
json_loads(s) ==
    IF Len(s) = 1 /\ s[1].t = "json" THEN [kind |-> "ok", v |-> s[1].v]
    ELSE IF Len(s) = 1 /\ s[1].t = "deep" THEN [kind |-> "other_error", v |-> NoJson]
    ELSE [kind |-> "decode_error", v |-> NoJson]

\* text.split('\n\n')
RECURSIVE Split(_, _)
Split(s, cur) ==
    IF s = <<>> THEN <<cur>>
    ELSE IF Head(s).t = "para" THEN <<cur>> \o Split(Tail(s), <<>>)
    ELSE Split(Tail(s), Append(cur, Head(s)))

FirstN(s, n) == SubSeq(s, 1, IF Len(s) < n THEN Len(s) ELSE n)

MAX_PARAGRAPHS == 5

NoExplanation == [v |-> NoJson, paras |-> <<>>]

\* the except json.JSONDecodeError branch of the explanation stage
explanation_fallback(text) ==
    [v |-> Dict({<<"topic", "str">>, <<"content", "list">>}),
     paras |-> IF text # <<>> THEN FirstN(Split(text, <<>>), MAX_PARAGRAPHS)
               ELSE << <<Tok("unable")>> >>]

\* mutant: the correctAnswer test is missing
valid_question_m(q) ==
    q.ty = "dict" /\ {"question", "options"} \subseteq Keys(q)

\* isinstance(q, dict) and 'question' in q and 'options' in q and 'correctAnswer' in q
valid_question(q) ==
    q.ty = "dict" /\ {"question", "options", "correctAnswer"} \subseteq Keys(q)

FALLBACK_QUESTION ==
    Dict({<<"question", "main_topic">>, <<"options", "placeholders">>,
          <<"correctAnswer", "B">>})

\* the try/except of the quiz stage
quiz_normalize(text) ==
    LET parsed == json_loads(text) IN
    IF parsed.kind # "ok" THEN <<FALLBACK_QUESTION>>
    ELSE LET quiz == IF parsed.v.ty # "list" THEN <<parsed.v>> ELSE parsed.v.items
             valid_questions == SelectSeq(quiz, valid_question)
         IN IF valid_questions = <<>> THEN <<FALLBACK_QUESTION>> ELSE valid_questions

\* --------------------------------------------------------- responses

Msg(m) == [name |-> <<>>, msg |-> m]

NoResponse ==
    [kind |-> "none", status |-> 0, error |-> <<>>,
     explanation |-> [wrapped |-> FALSE, data |-> NoExplanation],
     quiz |-> <<>>, files_processed |-> <<>>]

Failed(status, error) == [NoResponse EXCEPT !.kind = "Failed", !.status = status, !.error = error]

\* the final jsonify: explanation_for_storage wraps a dict in a list
Success(expl, quiz, files) ==
    [NoResponse EXCEPT !.kind = "Success", !.status = 200,
                       !.explanation = [wrapped |-> expl.v.ty = "dict", data |-> expl],
                       !.quiz = quiz, !.files_processed = files]

\* ----------------------------------------------------------- prompts

EXPL_PREFIX_LEN == 151
EXPL_SUFFIX_LEN == 526
QUIZ_PREFIX_LEN == 140
QUIZ_SUFFIX_LEN == 576

explanation_prompt(corpus) ==
    Run("tmpl_e", EXPL_PREFIX_LEN, 0) \o corpus \o Run("tmpl_e", EXPL_SUFFIX_LEN, 0)

quiz_prompt(corpus) ==
    Run("tmpl_q", QUIZ_PREFIX_LEN, 0) \o corpus \o Run("tmpl_q", QUIZ_SUFFIX_LEN, 0)

\* call_openai_api skips the client on a blank prompt
CallsClient(prompt) == ~IsBlank(prompt)

\* ------------------------------------------------------------ actions

\* "\n\n--- Content from {filename} ---\n\n"
Header(filename, src) ==
    Run("ws", 2, src) \o Run("hdr", HEADER_FIXED_LEN + Len(filename), src) \o Run("ws", 2, src)

CUT_MARK == Run("cut", CUT_MARK_LEN, 0)

\* mutant: the ceiling test is >= instead of >
Truncate_m(text) ==
    IF TLen(text) >= MAX_CORPUS THEN Take(text, MAX_CORPUS) \o CUT_MARK ELSE text

\* the "Limit text size for API" block
Truncate(text) ==
    IF TLen(text) > MAX_CORPUS THEN Take(text, MAX_CORPUS) \o CUT_MARK ELSE text

\* mutant: the per-file errors are left out of the message
composite_error_m(errs) == <<Msg("Could not extract text from files.")>>

\* error_msg of the empty-corpus check
composite_error(errs) == <<Msg("Could not extract text from files.")>> \o errs

\* which requests the "No files selected" check turns away
NothingSelected(files) == files = <<>> \/ files[1].filename = <<>>

Validate ==
    /\ pc = "start"
    /\ IF ~request.has_files
       THEN /\ response' = Failed(400, <<Msg("No files provided")>>)
            /\ pc' = "done"
       ELSE IF NothingSelected(request.files)
       THEN /\ response' = Failed(400, <<Msg("No files selected")>>)
            /\ pc' = "done"
       ELSE /\ pc' = "loop"
            /\ UNCHANGED response
    /\ UNCHANGED <<request, i, page, pdf_text, combined_text, processed_files, errors, explanation_text,
                   explanation_data, quiz_text, quiz_data, extracted, returned, calls, replies,
                   assembled>>

\* the loop body once extract_text_from_file has returned `text` for file i
Record(filename, text) ==
    /\ IF HasText(text)
       THEN /\ combined_text' = combined_text \o Header(filename, i) \o Tag(text.text, i)
            /\ processed_files' = Append(processed_files, filename)
            /\ UNCHANGED errors
       ELSE /\ errors' = Append(errors, [name |-> filename, msg |-> "Could not extract text"])
            /\ UNCHANGED <<combined_text, processed_files>>
    /\ returned' = returned \cup {[idx |-> i, result |-> text]}
    /\ i' = i + 1

\* whether the loop body hands file to extract_text_from_file
Extracts(file) == Truthy(file) /\ allowed_file(file.filename)

\* one iteration of "for file in files" that reads no pdf pages.
\* extract_text_from_file catches every exception of its branches, so the
\* loop's own except is not reached.
ProcessFile ==
    /\ pc = "loop"
    /\ i <= Len(request.files)
    /\ LET file == request.files[i] IN
       /\ ~(Extracts(file) /\ reads_pages(file, request.pypdf2))
       /\ IF Extracts(file)
          THEN /\ extracted' = extracted \cup {i}
               /\ Record(secure_filename(file.filename),
                         extract_text_from_file(file, request.pypdf2))
          ELSE /\ errors' = IF Truthy(file) /\ file.filename # <<>>
                            THEN Append(errors, [name |-> file.filename,
                                                 msg |-> "File type not supported"])
                            ELSE errors
               /\ i' = i + 1
               /\ UNCHANGED <<combined_text, processed_files, extracted, returned>>
    /\ UNCHANGED <<request, pc, page, pdf_text, explanation_text, explanation_data, quiz_text,
                   quiz_data, response, calls, replies, assembled>>

\* an iteration of "for file in files" whose extraction enters the pdf page loop
OpenPdf ==
    /\ pc = "loop"
    /\ i <= Len(request.files)
    /\ Extracts(request.files[i])
    /\ reads_pages(request.files[i], request.pypdf2)
    /\ extracted' = extracted \cup {i}
    /\ pc' = "pages"
    /\ page' = 1
    /\ pdf_text' = <<>>
    /\ UNCHANGED <<request, i, combined_text, processed_files, errors, explanation_text,
                   explanation_data, quiz_text, quiz_data, response, returned, calls, replies,
                   assembled>>

\* one page of the pdf page loop
ExtractPage ==
    /\ pc = "pages"
    /\ page <= pages_to_process(request.files[i])
    /\ LET step == page_step(request.files[i], page, pdf_text) IN
       /\ pdf_text' = step.text
       /\ page' = IF step.stop THEN pages_to_process(request.files[i]) + 1 ELSE page + 1
    /\ UNCHANGED <<request, pc, i, combined_text, processed_files, errors,
                   explanation_text, explanation_data, quiz_text, quiz_data, response,
                   extracted, returned, calls, replies, assembled>>

\* the page loop is over: extract_text_from_file returns, the loop body goes on
ClosePdf ==
    /\ pc = "pages"
    /\ page > pages_to_process(request.files[i])
    /\ Record(secure_filename(request.files[i].filename),
              pdf_result(request.files[i], pdf_text))
    /\ pc' = "loop"
    /\ page' = 0
    /\ pdf_text' = <<>>
    /\ UNCHANGED <<request, explanation_text, explanation_data, quiz_text, quiz_data,
                   response, extracted, calls, replies, assembled>>

\* after the loop: the empty-corpus check, then the 8000-character ceiling
CheckCorpus ==
    /\ pc = "loop"
    /\ i > Len(request.files)
    /\ assembled' = [done |-> TRUE, text |-> combined_text]
    /\ IF IsBlank(combined_text)
       THEN /\ response' = Failed(400, composite_error(errors))
            /\ pc' = "done"
            /\ UNCHANGED combined_text
       ELSE /\ combined_text' = Truncate(combined_text)
            /\ pc' = "explain"
            /\ UNCHANGED response
    /\ UNCHANGED <<request, i, page, pdf_text, processed_files, errors, explanation_text, explanation_data,
                   quiz_text, quiz_data, extracted, returned, calls, replies>>

\* the explanation stage; R is what the model client can answer
ExplanationStage(R) ==
    /\ pc = "explain"
    /\ LET prompt == explanation_prompt(combined_text) IN
       \E r \in (IF CallsClient(prompt) THEN R ELSE {Absent}) :
          /\ calls' = IF CallsClient(prompt) THEN Append(calls, prompt) ELSE calls
          /\ replies' = Append(replies, r)
          /\ IF Falsy(r)
             THEN /\ response' = Failed(500, <<Msg("Failed to generate explanation. Please try again.")>>)
                  /\ pc' = "done"
                  /\ UNCHANGED <<explanation_text, explanation_data>>
             ELSE LET text == Clean(r.toks)
                      parsed == json_loads(text)
                  IN /\ explanation_text' = text
                     /\ IF parsed.kind = "other_error"
                        THEN /\ response' = Failed(500, <<Msg("Processing error")>>)
                             /\ pc' = "done"
                             /\ UNCHANGED explanation_data
                        ELSE /\ explanation_data' =
                                  IF parsed.kind = "ok" THEN [v |-> parsed.v, paras |-> <<>>]
                                  ELSE explanation_fallback(text)
                             /\ pc' = "quiz"
                             /\ UNCHANGED response
    /\ UNCHANGED <<request, i, page, pdf_text, combined_text, processed_files, errors, quiz_text, quiz_data,
                   extracted, returned, assembled>>

\* the quiz stage and the final response
QuizStage(R) ==
    /\ pc = "quiz"
    /\ LET prompt == quiz_prompt(combined_text) IN
       \E r \in (IF CallsClient(prompt) THEN R ELSE {Absent}) :
          /\ calls' = IF CallsClient(prompt) THEN Append(calls, prompt) ELSE calls
          /\ replies' = Append(replies, r)
          /\ IF Falsy(r)
             THEN /\ response' = Failed(500, <<Msg("Failed to generate quiz. Please try again.")>>)
                  /\ UNCHANGED <<quiz_text, quiz_data>>
             ELSE LET text == Clean(r.toks)
                      quiz == quiz_normalize(text)
                  IN /\ quiz_text' = text
                     /\ quiz_data' = quiz
                     /\ response' = Success(explanation_data, quiz, processed_files)
          /\ pc' = "done"
    /\ UNCHANGED <<request, i, page, pdf_text, combined_text, processed_files, errors, explanation_text,
                   explanation_data, extracted, returned, assembled>>

\* ---------------------------------------------------------- universes

File(name, readable, bytes, pdf_ok, total, pat) ==
    [filename |-> name, readable |-> readable, bytes |-> bytes,
     pdf_ok |-> pdf_ok, total_pages |-> total, pat |-> pat]

Img == [raises |-> FALSE, k |-> "ch", n |-> 0]       \* a page without text
Bad == [raises |-> TRUE, k |-> "ch", n |-> 0]        \* extract_text raises
Txt(n) == [raises |-> FALSE, k |-> "ch", n |-> n]    \* a page of n characters

N_TXT == <<"a", ".", "t", "x", "t">>
N_SPACED == <<"d", " ", "e", ".", "t", "x", "t">>
N_PDF == <<"b", ".", "P", "D", "F">>
N_DOCX == <<"c", ".", "d", "o", "c", "x">>
N_NOEXT == <<"n", "o", "t", "e", "s">>

TxtFile(name, bytes) == File(name, TRUE, bytes, FALSE, 0, <<Img>>)
PdfFile(total, pat) == File(N_PDF, TRUE, Run("bad", 900, 0), TRUE, total, pat)

UNNAMED == File(<<>>, TRUE, <<>>, FALSE, 0, <<Img>>)
NOTES_TXT == TxtFile(N_TXT, Run("ch", 40, 0))
EMPTY_TXT == TxtFile(N_TXT, <<>>)
LONG_TXT == TxtFile(N_SPACED, Run("ch", 9000, 0))
SCAN_150 == PdfFile(150, <<Img>>)
DOCX == TxtFile(N_DOCX, Run("ch", 40, 0))

SmallUploads == {UNNAMED, NOTES_TXT, EMPTY_TXT, LONG_TXT, SCAN_150, DOCX}

RichUploads ==
    SmallUploads \cup
    { TxtFile(N_SPACED, Run("ws", 3, 0)),
      TxtFile(N_TXT, Run("bad", 12, 0)),
      TxtFile(N_TXT, Run("ch", 7970, 0)),
      TxtFile(N_TXT, Run("ch", 5242000, 0) \o Run("bad", 10, 0) \o Run("ch", 900000, 0)),
      File(N_TXT, FALSE, Run("ch", 40, 0), FALSE, 0, <<Img>>),
      TxtFile(N_NOEXT, Run("ch", 40, 0)),
      PdfFile(1, <<Img>>),
      PdfFile(2, <<Txt(30)>>),
      PdfFile(3, <<Bad, Txt(9000)>>),
      PdfFile(100, <<Txt(1200)>>),
      File(N_PDF, TRUE, Run("bad", 900, 0), FALSE, 0, <<Img>>) }

\* the sequences of n files of U
RECURSIVE FileLists(_, _)
FileLists(U, n) ==
    IF n = 0 THEN { <<>> }
    ELSE { Append(fs, f) : fs \in FileLists(U, n - 1), f \in U }

\* the uploads of one request: "files" missing, or one to MaxFiles files
Requests(U, libs) ==
    { [has_files |-> FALSE, files |-> <<>>, pypdf2 |-> TRUE] } \cup
    { [has_files |-> TRUE, files |-> fs, pypdf2 |-> lib] :
        fs \in UNION { FileLists(U, n) : n \in 1..MaxFiles }, lib \in libs }

Q1 == Dict({<<"question", "str">>, <<"options", "list">>, <<"correctAnswer", "str">>})
Q2 == Dict({<<"question", "str">>, <<"options", "list">>, <<"correctAnswer", "str">>,
            <<"hint", "str">>})
Q_NO_ANSWER == Dict({<<"question", "str">>, <<"options", "list">>})
Q_HOLLOW == Dict({<<"question", "emptystr">>, <<"options", "emptylist">>,
                  <<"correctAnswer", "null">>})
E_OK == Dict({<<"topic", "str">>, <<"content", "list">>})
E_EMPTY_CONTENT == Dict({<<"topic", "str">>, <<"content", "emptylist">>})
E_NO_CONTENT == Dict({})

ExplanationReplies ==
    { Absent,
      Present(<<>>),
      Present(<<WS>>),
      Present(<<J(E_OK)>>),
      Present(<<FJ, WS, J(E_OK), WS, F, WS>>),
      Present(<<J(E_NO_CONTENT)>>),
      Present(<<J(E_EMPTY_CONTENT)>>),
      Present(<<J(List(<<E_OK>>))>>),
      Present(<<J(Scalar)>>),
      Present(<<TXT>>),
      Present(<<TXT, PARA, TXT, PARA, PARA, TXT, PARA, TXT, PARA, TXT, PARA, TXT>>),
      Present(<<F, TXT, PARA, J(E_OK), F>>),
      Present(<<FJ, WS, F>>),
      Present(<<DEEP>>) }

QuizReplies ==
    { Absent,
      Present(<<>>),
      Present(<<WS>>),
      Present(<<J(List(<<Q1, Q_NO_ANSWER, Q2>>))>>),
      Present(<<FJ, WS, J(List(<<Q2, Scalar, Q1, Q2>>)), WS, F>>),
      Present(<<F, J(Q1), F>>),
      Present(<<WS, J(Q_NO_ANSWER), WS>>),
      Present(<<J(List(<<Q_NO_ANSWER, Scalar>>))>>),
      Present(<<J(List(<<>>))>>),
      Present(<<J(Scalar)>>),
      Present(<<J(List(<<Q_HOLLOW>>))>>),
      Present(<<TXT, J(List(<<Q1>>))>>),
      Present(<<J(List(<<Q1>>)), WS, TXT>>),
      Present(<<F, FJ, J(List(<<Q1>>)), F>>),
      Present(<<FJ, F>>),
      Present(<<DEEP>>) }

FewExplanationReplies == { Absent, Present(<<J(E_OK)>>), Present(<<TXT>>) }
FewQuizReplies == { Absent, Present(<<J(List(<<Q1>>))>>), Present(<<TXT>>) }

\* ----------------------------------------------------- specifications

InitOver(reqs) ==
    /\ request \in reqs
    /\ pc = "start"
    /\ i = 1
    /\ page = 0
    /\ pdf_text = <<>>
    /\ combined_text = <<>>
    /\ processed_files = <<>>
    /\ errors = <<>>
    /\ explanation_text = <<>>
    /\ explanation_data = NoExplanation
    /\ quiz_text = <<>>
    /\ quiz_data = <<>>
    /\ response = NoResponse
    /\ extracted = {}
    /\ returned = {}
    /\ calls = <<>>
    /\ replies = <<>>
    /\ assembled = [done |-> FALSE, text |-> <<>>]

\* few uploads, every kind of model reply
Init == InitOver(Requests(SmallUploads, {TRUE}))

Next ==
    \/ Validate
    \/ ProcessFile
    \/ OpenPdf
    \/ ExtractPage
    \/ ClosePdf
    \/ CheckCorpus
    \/ ExplanationStage(ExplanationReplies)
    \/ QuizStage(QuizReplies)

Spec == Init /\ [][Next]_vars

\* every kind of upload, few model replies
InitFiles == InitOver(Requests(RichUploads, BOOLEAN))

NextFiles ==
    \/ Validate
    \/ ProcessFile
    \/ OpenPdf
    \/ ExtractPage
    \/ ClosePdf
    \/ CheckCorpus
    \/ ExplanationStage(FewExplanationReplies)
    \/ QuizStage(FewQuizReplies)

SpecFiles == InitFiles /\ [][NextFiles]_vars

\* -------------------------------------------------------------- claims

Files == request.files

NoFilesProvided == Failed(400, <<Msg("No files provided")>>)
NoFilesSelected == Failed(400, <<Msg("No files selected")>>)
ExplanationFailed == Failed(500, <<Msg("Failed to generate explanation. Please try again.")>>)
QuizFailed == Failed(500, <<Msg("Failed to generate quiz. Please try again.")>>)

\* C1: a request answered "No files provided" or "No files selected" has
\* extracted no file and called the model never; a request whose assembled
\* corpus is empty or whitespace-only is answered 400 with "Could not extract
\* text from files." followed by every per-file error, and has called the
\* model never.
C1_ShortCircuit ==
    /\ response \in {NoFilesProvided, NoFilesSelected} =>
           extracted = {} /\ returned = {} /\ calls = <<>> /\ replies = <<>>
    /\ assembled.done /\ IsBlank(assembled.text) =>
           /\ pc = "done"
           /\ response.kind = "Failed"
           /\ response.status = 400
           /\ response.error = <<Msg("Could not extract text from files.")>> \o errors
           /\ calls = <<>>
           /\ replies = <<>>

C1_Witness ==
    /\ pc = "done"
    /\ assembled.done
    /\ IsBlank(assembled.text)
    /\ Len(errors) >= 2
    /\ extracted # {}

\* the kind of prompt a call carried, from its template
PromptKind(prompt) == prompt[1].k

\* C2: the explanation call comes before the quiz call; an absent explanation
\* reply ends the request in "Failed to generate explanation..." without a quiz
\* call; an absent quiz reply ends it in "Failed to generate quiz...", never in
\* a Success.
C2_StageSequencing ==
    /\ Len(calls) <= 2
    /\ Len(calls) >= 1 => PromptKind(calls[1]) = "tmpl_e"
    /\ Len(calls) = 2 => PromptKind(calls[2]) = "tmpl_q"
    /\ Len(replies) >= 1 /\ replies[1] = Absent =>
           pc = "done" /\ response = ExplanationFailed /\ Len(calls) = 1
    /\ Len(replies) = 2 /\ replies[2] = Absent =>
           pc = "done" /\ response = QuizFailed

C2_Witness ==
    /\ Len(replies) = 2
    /\ replies[2] = Absent
    /\ explanation_data # NoExplanation
    /\ pc = "done"

\* C3: after corpus assembly a request fails only when a model call returned
\* absent; present replies, whatever they hold, end in Success.
C3_MalformedNeverAnError ==
    pc = "done" /\ assembled.done /\ ~IsBlank(assembled.text) =>
        IF \E k \in 1..Len(replies) : replies[k] = Absent
        THEN response.kind = "Failed"
        ELSE response.kind = "Success"

\* the quiz candidates of a cleaned reply: nothing on a parse failure, the
\* array's elements, or the one value that is no array
Candidates(cleaned) ==
    LET parsed == json_loads(cleaned) IN
    IF parsed.kind # "ok" THEN <<>>
    ELSE IF parsed.v.ty = "list" THEN parsed.v.items
    ELSE <<parsed.v>>

HasAllThree(q) ==
    /\ q.ty = "dict"
    /\ \A key \in {"question", "options", "correctAnswer"} : \E m \in q.d : m[1] = key

TheFallbackQuiz ==
    << [ty |-> "dict",
        d |-> {<<"question", "main_topic">>, <<"options", "placeholders">>,
               <<"correctAnswer", "B">>},
        items |-> <<>>] >>

NonEmptyLeaf(leaf) == leaf \notin {"null", "emptystr", "emptylist"}

\* C5: every question of a Success's quiz has question, options and
\* correctAnswer present and non-empty.
C5_QuestionsNonEmpty ==
    response.kind = "Success" =>
        \A k \in 1..Len(response.quiz) :
            \A key \in {"question", "options", "correctAnswer"} :
                /\ \E m \in response.quiz[k].d : m[1] = key
                /\ \A m \in response.quiz[k].d : m[1] = key => NonEmptyLeaf(m[2])

\* C6: the explanation of a Success has non-empty content, at least one
\* paragraph, whatever the explanation reply was.
C6_ExplanationNonEmpty ==
    response.kind = "Success" =>
        LET e == response.explanation.data IN
        /\ e.v.ty = "dict"
        /\ <<"content", "list">> \in e.v.d
        /\ \A m \in e.v.d : m[1] = "content" => m[2] = "list"

\* the corpus a prompt embeds: the prompt without its template
Embedded(prompt) == SubSeq(prompt, 2, Len(prompt) - 1)

\* a is b cut off somewhere
RECURSIVE PrefixOf(_, _)
PrefixOf(a, b) ==
    \/ a = <<>>
    \/ /\ b # <<>>
       /\ Head(a).k = Head(b).k
       /\ Head(a).src = Head(b).src
       /\ \/ Head(a).n = Head(b).n /\ PrefixOf(Tail(a), Tail(b))
          \/ Head(a).n < Head(b).n /\ Tail(a) = <<>>

\* C7: a prompt embeds the assembled corpus unchanged when it has at most 8000
\* characters, and otherwise its first 8000 characters followed by one
\* truncation marker; both prompts embed the same text.
C7_CorpusTruncation ==
    /\ \A c \in 1..Len(calls) :
          LET corpus == Embedded(calls[c])
              body == SubSeq(corpus, 1, Len(corpus) - 1)
          IN IF TLen(assembled.text) <= 8000
             THEN corpus = assembled.text
             ELSE /\ corpus[Len(corpus)] = [k |-> "cut", n |-> 38, src |-> 0]
                  /\ TLen(body) = 8000
                  /\ TLen(corpus) = 8000 + 38
                  /\ PrefixOf(body, assembled.text)
                  /\ \A j \in 1..Len(body) : body[j].k # "cut"
    /\ Len(calls) = 2 => Embedded(calls[1]) = Embedded(calls[2])

C7_Witness ==
    /\ Len(calls) = 2
    /\ TLen(assembled.text) > 8000
    /\ Len(processed_files) >= 2
    /\ \E j \in 1..Len(assembled.text) :
          assembled.text[j].src = 1 /\ assembled.text[j].k = "ch" /\ assembled.text[j].n < 8000

\* how many of the files the per-file loop has dealt with
Visited ==
    IF assembled.done THEN Len(Files)
    ELSE IF pc \in {"loop", "pages"} THEN i - 1
    ELSE 0

\* the corpus as the per-file loop builds it
Corpus == IF assembled.done THEN assembled.text ELSE combined_text

Named(j) == Files[j].filename # <<>>
Supported(j) == allowed_file(Files[j].filename)
GotText(j) == \E r \in returned : r.idx = j /\ r.result.some /\ r.result.text # <<>>

Contributors == {j \in 1..Visited : Named(j) /\ Supported(j) /\ GotText(j)}
Rejected == {j \in 1..Visited : Named(j) /\ j \notin Contributors}

RECURSIVE Ascending(_)
Ascending(S) ==
    IF S = {} THEN <<>>
    ELSE LET m == CHOOSE x \in S : \A y \in S : x <= y
         IN <<m>> \o Ascending(S \ {m})

ExpectedError(j) ==
    IF Supported(j)
    THEN [name |-> secure_filename(Files[j].filename), msg |-> "Could not extract text"]
    ELSE [name |-> Files[j].filename, msg |-> "File type not supported"]

Blocks == SelectSeq(Corpus, LAMBDA r : r.k = "hdr")

ImageOnly(file) ==
    /\ HasDot(file.filename)
    /\ Extension(file.filename) = <<"p","d","f">>
    /\ file.pdf_ok
    /\ \A p \in 1..Len(file.pat) : file.pat[p].raises \/ file.pat[p].n = 0

\* C9: an image-only page-document of any page count is "no text found":
\* its extraction returns no text, it is in neither the corpus nor
\* processed_files, and a request of only such files fails without a model call.
C9_ImageOnlyNoText ==
    request.pypdf2 =>
        /\ \A r \in returned : ImageOnly(Files[r.idx]) => ~r.result.some
        /\ \A j \in 1..Len(Corpus) : Corpus[j].src # 0 => ~ImageOnly(Files[Corpus[j].src])
        /\ (\A j \in 1..Len(Files) : ImageOnly(Files[j])) =>
               calls = <<>> /\ response.kind # "Success"

\* C10: with a non-empty "files" list the answer is "No files selected" exactly
\* when every file of the list is unnamed.
C10_EmptySelection ==
    pc = "done" /\ request.has_files =>
        (response = NoFilesSelected <=> \A j \in 1..Len(Files) : Files[j].filename = <<>>)

====
